---- MODULE Spec2Model ----
(***************************************************************************)
(* Escrow and wallet consistency engine of be-bantuin: the order           *)
(* lifecycle (OrdersService), the two PaymentsService variants and their   *)
(* webhook handlers, the wallet ledger and the withdrawal workflow         *)
(* (WalletService), disputes (DisputesService, AdminService).              *)
(*                                                                         *)
(* Every handler first reads the store (its guards are evaluated on what   *)
(* it read) and then writes; a Prisma $transaction commits atomically.     *)
(* Between its reads and its writes a handler either goes on at once or    *)
(* is suspended while other handlers run; it then writes what it decided   *)
(* from its stale reads.  At most MaxSuspended handlers are suspended at   *)
(* a time; any number run to their end meanwhile.                          *)
(***************************************************************************)
EXTENDS Integers, FiniteSets, Sequences, Bags, TLC

\* ---------------------------------------------------------------- bounds
\* number of handlers that may be suspended between read and write at once
MaxSuspended == 1
\* number of Withdrawal rows that can be created in one behaviour
MaxWithdrawals == 2
\* number of WalletTransaction rows the ledger can hold
MaxLedger == 4
\* service.revisions snapshotted into order.maxRevisions
MaxRevisions == 1
\* number of consecutive order prices, from MIN_TRANSACTION_AMOUNT on, for
\* which the fee arithmetic is checked
MaxFeePrices == 60

\* createInTx calls followed in the specification of the notifications
MaxNotifications == 3

\* number of PayoutRequest rows in the specification of the payouts
MaxPayouts == 3

\* ------------------------------------------------------ program constants
MIN_BALANCE == 0
WITHDRAWAL_FEE_FIXED == 5000
WITHDRAWAL_FEE_PERCENTAGE == 0
MAX_PENDING_WITHDRAWALS == 3
PLATFORM_FEE_PERCENTAGE == 5
MIN_TRANSACTION_AMOUNT == 10000

\* ------------------------------------------------------------- universes
Orders == {"o1"}
Buyer == "buyer"
Seller == "seller"
Admin == "admin"
Users == {Buyer, Seller}
\* a user who is neither the buyer nor the seller of any order
Stranger == "stranger"
\* who may call an endpoint
Callers == Users \cup {Stranger}
\* order prices; multiples of 10, for which orderPrice * 0.1 is integral
Prices == {100000}
\* order prices of the fee arithmetic
FeePrices == MIN_TRANSACTION_AMOUNT .. (MIN_TRANSACTION_AMOUNT + MaxFeePrices - 1)
WithdrawalAmounts == {50000}
WithdrawalIds == 1..MaxWithdrawals
\* PayoutRequest rows and the amounts they ask for
PayoutIds == 1..MaxPayouts
\* Withdrawal rows of the specification of the pending limit: one more than
\* the limit allows to be pending
PendingIds == 1..(MAX_PENDING_WITHDRAWALS + 1)
\* seller balances at the start of that specification
PendingBalances == {200000, 250000}
\* amounts asked for in that specification, from MIN_WITHDRAWAL up
PendingAmounts == {50000, 50001, 60000}
PayoutAmounts == {50000, 75000}
NoId == "null"
ServerKey == "server-key"

\* transaction_status and fraud_status values a gateway notification carries
RawStatuses == {"settlement", "pending", "expire", "cancel"}
FraudStatuses == {"accept", "deny"}

VARIABLES
  variant,     \* which PaymentsService is deployed: "full" or "event"
  order,       \* Order rows
  payment,     \* Payment row of each order
  wallet,      \* Wallet row of each user
  ledger,      \* bag of WalletTransaction rows
  withdrawal,  \* Withdrawal rows
  dispute,     \* Dispute row of each order
  statistics,  \* service.totalOrders and the seller's totalOrdersCompleted
  quote,       \* the fee and seller amount last computed for a release
  response,    \* the HTTP response to the last webhook request
  notification, \* Notification rows created, and createInTx calls that failed
  payout,      \* PayoutRequest rows
  suspended    \* bag of handlers suspended between their reads and their writes

vars ==
  <<variant, order, payment, wallet, ledger, withdrawal, dispute, statistics,
    quote, response, notification, payout, suspended>>

\* the store as one value: what a handler reads and what a transaction returns
Store ==
  [order |-> order, payment |-> payment, wallet |-> wallet, ledger |-> ledger,
   withdrawal |-> withdrawal, dispute |-> dispute, statistics |-> statistics]

\* the store becomes S; the ledger holds at most MaxLedger rows
Apply(S) ==
  /\ BagCardinality(S.ledger) <= MaxLedger
  /\ order' = S.order
  /\ payment' = S.payment
  /\ wallet' = S.wallet
  /\ ledger' = S.ledger
  /\ withdrawal' = S.withdrawal
  /\ dispute' = S.dispute
  /\ statistics' = S.statistics

\* ------------------------------------------------------------ arithmetic
\* Math.round(num / den) for num >= 0, den > 0
MathRound(num, den) == (2 * num + den) \div (2 * den)

calculateWithdrawalFee(amount) ==
  WITHDRAWAL_FEE_FIXED + MathRound(amount * WITHDRAWAL_FEE_PERCENTAGE, 100)

\* a net amount from which the fee is not taken
calculateNetWithdrawalAmountGross(grossAmount) ==
  [gross |-> grossAmount,
   fee |-> calculateWithdrawalFee(grossAmount),
   net |-> grossAmount]

calculateNetWithdrawalAmount(grossAmount) ==
  [gross |-> grossAmount,
   fee |-> calculateWithdrawalFee(grossAmount),
   net |-> grossAmount - calculateWithdrawalFee(grossAmount)]

\* PaymentsService.releaseEscrow: Math.round(amount * PLATFORM_FEE_PERCENTAGE / 100)
releaseEscrowFee(amount) == MathRound(amount * PLATFORM_FEE_PERCENTAGE, 100)

\* a number that need not be whole, as the fraction num / den, den > 0
Rat(num, den) == [num |-> num, den |-> den]
IsWhole(q) == q.num % q.den = 0
\* the integer a whole q is
Whole(q) == q.num \div q.den
RatEquals(q, p) == q.num * p.den = p.num * q.den
\* n - q for an integer n
IntMinusRat(n, q) == Rat(n * q.den - q.num, q.den)
RatPlus(q, p) == Rat(q.num * p.den + p.num * q.den, q.den * p.den)

\* PaymentsService.releaseEscrow: platformFee and sellerAmount of an amount
releaseEscrowAmounts(amount) ==
  [platformFee |-> releaseEscrowFee(amount),
   sellerAmount |-> amount - releaseEscrowFee(amount)]

\* OrdersService.approveWork: orderPrice * 0.1, a JavaScript number that is
\* whole exactly when orderPrice is a multiple of 10 (the product is then
\* exact in double precision); otherwise it is orderPrice / 10 up to the
\* rounding of the double, and not whole
approveWorkFee(orderPrice) == Rat(orderPrice, 10)

\* OrdersService.approveWork: platformFee and amountToSeller of an order price
approveWorkAmounts(orderPrice) ==
  [platformFee |-> approveWorkFee(orderPrice),
   amountToSeller |-> IntMinusRat(orderPrice, approveWorkFee(orderPrice))]

\* ---------------------------------------------------------------- ledger
\* refOrderId is NoId and refWithdrawalId is 0 when not set
Entry(u, type, amount, orderId, withdrawalId) ==
  [wallet |-> u, type |-> type, amount |-> amount,
   refOrderId |-> orderId, refWithdrawalId |-> withdrawalId]

AddEntry(ldg, e) == ldg (+) SetToBag({e})

RECURSIVE SumEntries(_, _)
SumEntries(ldg, E) ==
  IF E = {} THEN 0
  ELSE LET e == CHOOSE x \in E : TRUE
       IN e.amount * CopiesIn(e, ldg) + SumEntries(ldg, E \ {e})

\* sum of the signed amounts of the entries of wallet u whose type is in T
LedgerSum(ldg, u, T) ==
  SumEntries(ldg, {e \in BagToSet(ldg) : e.wallet = u /\ e.type \in T})

RECURSIVE CountEntries(_, _)
CountEntries(ldg, E) ==
  IF E = {} THEN 0
  ELSE LET e == CHOOSE x \in E : TRUE
       IN CopiesIn(e, ldg) + CountEntries(ldg, E \ {e})

\* number of entries of a type in T that reference order o
OrderEntryCount(ldg, o, T) ==
  CountEntries(ldg, {e \in BagToSet(ldg) : e.refOrderId = o /\ e.type \in T})

\* number of entries of a type in T that reference withdrawal w
WithdrawalEntryCount(ldg, w, T) ==
  CountEntries(ldg, {e \in BagToSet(ldg) : e.refWithdrawalId = w /\ e.type \in T})

\* ------------------------------------------------------------- handlers
\* what a handler keeps from its reads; wid and amount are 0 for a handler
\* that concerns no withdrawal
Req(op, o, u, arg) ==
  [op |-> op, order |-> o, wid |-> 0, user |-> u, arg |-> arg, amount |-> 0]

WithdrawalReq(op, w, u, amount) ==
  [op |-> op, order |-> NoId, wid |-> w, user |-> u, arg |-> "-", amount |-> amount]

SuspendedOf(op) == {r \in BagToSet(suspended) : r.op = op}

\* the handler goes on at once: its writes give the store S
Run(S) == Apply(S) /\ UNCHANGED <<variant, suspended, quote, response, notification, payout>>

\* the handler is suspended after its reads
Suspend(r) ==
  /\ BagCardinality(suspended) < MaxSuspended
  /\ suspended' = suspended (+) SetToBag({r})
  /\ UNCHANGED <<variant, order, payment, wallet, ledger, withdrawal, dispute,
                 statistics, quote, response, notification, payout>>

\* the suspended handler r writes: the store becomes S
Resume(r, S) ==
  /\ Apply(S)
  /\ suspended' = suspended (-) SetToBag({r})
  /\ UNCHANGED <<variant, quote, response, notification, payout>>

\* ------------------------------------------------------------------ Init
\* no webhook request has been answered
NoResponse == [statusCode |-> 0, success |-> FALSE]

\* no PayoutRequest has been made
NoPayouts == [p \in PayoutIds |-> [status |-> "none", amount |-> 0]]

\* no notification has been created or has failed
NoNotification == [created |-> 0, failed |-> 0]

\* no release has been computed
NoQuote ==
  [path |-> "none", price |-> 0, percentage |-> 0, fee |-> Rat(0, 1), net |-> Rat(0, 1)]

\* OrdersService.create: the order exists as a draft, unpaid, no revisions
Init ==
  /\ variant \in {"full", "event"}
  /\ order \in [Orders -> [status : {"draft"}, isPaid : {FALSE},
                           revisionCount : {0}, price : Prices]]
  /\ payment = [o \in Orders |-> [status |-> "none", paidAmount |-> 0]]
  /\ wallet = [u \in Users |-> [exists |-> FALSE, balance |-> 0]]
  /\ ledger = EmptyBag
  /\ withdrawal = [w \in WithdrawalIds |->
                     [status |-> "none", userId |-> NoId, amount |-> 0,
                      fee |-> 0, netAmount |-> 0]]
  /\ dispute = [o \in Orders |-> [status |-> "none", resolution |-> NoId]]
  /\ statistics = [totalOrders |-> 0, totalOrdersCompleted |-> 0]
  /\ quote = NoQuote
  /\ response = NoResponse
  /\ notification = NoNotification
  /\ payout = NoPayouts
  /\ suspended = EmptyBag

\* ------------------------------------------------- WalletsService (wallets/)
\* createTransaction, after the Wallet Ledger contract of the specification
\* (the service's source is not among the sources): refuses an entry whose
\* (refOrderId, type) exists; otherwise inserts the entry and adjusts the
\* balance by its amount, within the caller's transaction
createTransactionRefuses(S, type, orderId) ==
  orderId # NoId /\ OrderEntryCount(S.ledger, orderId, {type}) > 0

createTransaction(S, u, type, amount, orderId) ==
  [S EXCEPT !.wallet[u].balance = @ + amount,
            !.ledger = AddEntry(@, Entry(u, type, amount, orderId, 0))]

\* WalletService.getOrCreateWallet: upsert with balance 0
getOrCreateWallet(u) ==
  /\ ~wallet[u].exists
  /\ Run([Store EXCEPT !.wallet[u] = [exists |-> TRUE, balance |-> 0]])

\* ------------------------------------------------------------ OrdersService
\* findOneWithAccess / findFirst: the row is found only for its own party
PartyOf(role) == IF role = "buyer" THEN Buyer ELSE Seller

\* PaymentsService.createPayment (event variant): an existing pending payment
\* is returned; otherwise the gateway call either fails (nothing is stored)
\* or the payment row is upserted as pending
createPayment(S, o, gatewayOk) ==
  IF S.payment[o].status = "pending" \/ ~gatewayOk THEN S
  ELSE [S EXCEPT !.payment[o] = [status |-> "pending", paidAmount |-> 0]]

\* order.update to waiting_payment, then paymentsService.createPayment; the
\* full variant has no createPayment, there the buyer calls initiatePayment
confirmOrderWrite(S, r, gatewayOk) ==
  LET S1 == [S EXCEPT !.order[r.order].status = "waiting_payment"]
  IN IF variant = "event" THEN createPayment(S1, r.order, gatewayOk) ELSE S1

confirmOrder(o, u) ==
  /\ u = PartyOf("buyer")
  /\ order[o].status = "draft"
  /\ LET r == Req("confirmOrder", o, u, "-")
     IN \/ \E gatewayOk \in BOOLEAN : Run(confirmOrderWrite(Store, r, gatewayOk))
        \/ Suspend(r)

confirmOrderResume(r) ==
  /\ r \in SuspendedOf("confirmOrder")
  /\ \E gatewayOk \in BOOLEAN : Resume(r, confirmOrderWrite(Store, r, gatewayOk))

startWorkWrite(S, r) == [S EXCEPT !.order[r.order].status = "in_progress"]

\* a startWork that looks the order up by its id alone, whoever calls
startWorkAnyCaller(o, u) ==
  /\ order[o].status = "paid_escrow"
  /\ LET r == Req("startWork", o, u, "-")
     IN Run(startWorkWrite(Store, r)) \/ Suspend(r)

startWork(o, u) ==
  /\ u = PartyOf("seller")
  /\ order[o].status = "paid_escrow"
  /\ LET r == Req("startWork", o, u, "-")
     IN Run(startWorkWrite(Store, r)) \/ Suspend(r)

startWorkResume(r) ==
  /\ r \in SuspendedOf("startWork")
  /\ Resume(r, startWorkWrite(Store, r))

deliverWorkWrite(S, r) == [S EXCEPT !.order[r.order].status = "delivered"]

deliverWork(o, u) ==
  /\ u = PartyOf("seller")
  /\ order[o].status \in {"in_progress", "revision"}
  /\ LET r == Req("deliverWork", o, u, "-")
     IN Run(deliverWorkWrite(Store, r)) \/ Suspend(r)

deliverWorkResume(r) ==
  /\ r \in SuspendedOf("deliverWork")
  /\ Resume(r, deliverWorkWrite(Store, r))

\* a quota check that lets the call through at revisionCount = maxRevisions
requestRevisionAtQuota(o, u) ==
  /\ u = PartyOf("buyer")
  /\ order[o].status = "delivered"
  /\ order[o].revisionCount <= MaxRevisions
  /\ LET r == Req("requestRevision", o, u, "-")
     IN Run([Store EXCEPT !.order[o].status = "revision",
                          !.order[o].revisionCount = @ + 1]) \/ Suspend(r)

requestRevisionWrite(S, r) ==
  [S EXCEPT !.order[r.order].status = "revision",
            !.order[r.order].revisionCount = @ + 1]

requestRevision(o, u) ==
  /\ u = PartyOf("buyer")
  /\ order[o].status = "delivered"
  /\ order[o].revisionCount < MaxRevisions
  /\ LET r == Req("requestRevision", o, u, "-")
     IN Run(requestRevisionWrite(Store, r)) \/ Suspend(r)

requestRevisionResume(r) ==
  /\ r \in SuspendedOf("requestRevision")
  /\ Resume(r, requestRevisionWrite(Store, r))

\* the transaction of approveWork with a createTransaction that refuses nothing
approveWorkTxUnrefused(S, r) ==
  LET o == r.order
      orderPrice == S.order[o].price
      amountToSeller == Whole(approveWorkAmounts(orderPrice).amountToSeller)
  IN IF ~S.wallet[Seller].exists THEN S
     ELSE createTransaction(
            [S EXCEPT !.order[o].status = "completed",
                      !.statistics.totalOrders = @ + 1,
                      !.statistics.totalOrdersCompleted = @ + 1],
            Seller, "ESCROW_RELEASE", amountToSeller, o)

\* one $transaction: order completed, service.totalOrders and the seller's
\* totalOrdersCompleted incremented, ESCROW_RELEASE to the seller wallet; a
\* missing seller wallet or a refused createTransaction rolls it all back
approveWorkTx(S, r) ==
  LET o == r.order
      orderPrice == S.order[o].price
      platformFee == approveWorkAmounts(orderPrice).platformFee
      \* whole for the Prices of this specification
      amountToSeller == Whole(approveWorkAmounts(orderPrice).amountToSeller)
  IN IF ~S.wallet[Seller].exists \/ createTransactionRefuses(S, "ESCROW_RELEASE", o)
     THEN S
     ELSE createTransaction(
            [S EXCEPT !.order[o].status = "completed",
                      !.statistics.totalOrders = @ + 1,
                      !.statistics.totalOrdersCompleted = @ + 1],
            Seller, "ESCROW_RELEASE", amountToSeller, o)

approveWork(o, u) ==
  /\ u = PartyOf("buyer")
  /\ order[o].status = "delivered"
  /\ LET r == Req("approveWork", o, u, "-")
     IN Run(approveWorkTx(Store, r)) \/ Suspend(r)

approveWorkResume(r) ==
  /\ r \in SuspendedOf("approveWork")
  /\ Resume(r, approveWorkTx(Store, r))

\* needsRefund: one $transaction (order cancelled, ESCROW_REFUND of the price
\* to the buyer wallet), rolled back when the buyer wallet is missing or the
\* entry is refused; otherwise a plain update
cancelOrderWrite(S, r) ==
  LET o == r.order
  IN IF r.arg = "needsRefund"
     THEN IF ~S.wallet[Buyer].exists \/ createTransactionRefuses(S, "ESCROW_REFUND", o)
          THEN S
          ELSE createTransaction([S EXCEPT !.order[o].status = "cancelled"],
                                 Buyer, "ESCROW_REFUND", S.order[o].price, o)
     ELSE [S EXCEPT !.order[o].status = "cancelled"]

\* a cancelOrder without the check of the status
cancelOrderAnyStatus(o, u, role) ==
  /\ u = PartyOf(role)
  /\ LET r == Req("cancelOrder", o, u,
                  IF order[o].isPaid THEN "needsRefund" ELSE "noRefund")
     IN Run(cancelOrderWrite(Store, r)) \/ Suspend(r)

cancelOrder(o, u, role) ==
  /\ u = PartyOf(role)
  /\ order[o].status \in {"draft", "waiting_payment", "paid_escrow"}
  /\ LET r == Req("cancelOrder", o, u,
                  IF order[o].isPaid THEN "needsRefund" ELSE "noRefund")
     IN Run(cancelOrderWrite(Store, r)) \/ Suspend(r)

cancelOrderResume(r) ==
  /\ r \in SuspendedOf("cancelOrder")
  /\ Resume(r, cancelOrderWrite(Store, r))

\* --------------------------------------------- DisputesService, AdminService
\* a transaction that creates the Dispute row and leaves the order as it is
openDisputeTxDisputeOnly(S, r) ==
  IF S.dispute[r.order].status # "none" THEN S
  ELSE [S EXCEPT !.dispute[r.order].status = "OPEN"]

\* one $transaction: order disputed and the Dispute row created as OPEN; a
\* second Dispute row for the order is refused and rolls the transaction back
openDisputeTx(S, r) ==
  IF S.dispute[r.order].status # "none" THEN S
  ELSE [S EXCEPT !.order[r.order].status = "disputed",
                 !.dispute[r.order].status = "OPEN"]

openDispute(o, u) ==
  /\ u \in {Buyer, Seller}
  /\ order[o].status \in {"in_progress", "delivered", "revision"}
  /\ LET r == Req("openDispute", o, u, "-")
     IN Run(openDisputeTx(Store, r)) \/ Suspend(r)

openDisputeResume(r) ==
  /\ r \in SuspendedOf("openDispute")
  /\ Resume(r, openDisputeTx(Store, r))

\* one $transaction: the Dispute row becomes RESOLVED, two notifications
resolveDisputeTx(S, r) ==
  [S EXCEPT !.dispute[r.order] = [status |-> "RESOLVED", resolution |-> r.arg]]

resolveDispute(adminId, o, resolution) ==
  /\ dispute[o].status = "OPEN"
  /\ LET r == Req("resolveDispute", o, adminId, resolution)
     IN Run(resolveDisputeTx(Store, r)) \/ Suspend(r)

resolveDisputeResume(r) ==
  /\ r \in SuspendedOf("resolveDispute")
  /\ Resume(r, resolveDisputeTx(Store, r))

\* ------------------------------------------------------------- signatures
\* digests are kept symbolic: equal digests come from equal algorithm and input
Sha512(data) == <<"sha512", data>>
HmacSha512(key, data) == <<"hmac-sha512", key, data>>

\* order_id + status_code + gross_amount + server key, as one string
SignedFields(o) == <<o, "200", order[o].price, ServerKey>>

\* the signature_key values a notification may carry
SignatureKeys(o) ==
  {Sha512(SignedFields(o)), HmacSha512(ServerKey, SignedFields(o)), <<"forged">>}

\* a check that takes every signature_key for valid
validateSignatureAny(o, signatureKey) == TRUE

\* PaymentsService.validateSignature (full variant)
validateSignature(o, signatureKey) == Sha512(SignedFields(o)) = signatureKey

\* PaymentsService.verifySignature (event variant): the expected signature
verifySignature(o) == HmacSha512(ServerKey, SignedFields(o))

mapMidtransStatus(transactionStatus, fraudStatus) ==
  IF fraudStatus \in {"deny", "challenge"} THEN "failed"
  ELSE CASE transactionStatus \in {"capture", "settlement"} -> "settlement"
         [] transactionStatus = "pending" -> "pending"
         [] transactionStatus \in {"deny", "failure"} -> "failed"
         [] transactionStatus = "cancel" -> "cancelled"
         [] transactionStatus = "expire" -> "expired"
         [] transactionStatus \in {"refund", "partial_refund"} -> "refund"
         [] OTHER -> "pending"

\* ------------------------------------------- PaymentsService, full variant
finalStatuses == {"settlement", "success", "refund", "failed", "expired"}

\* inside the $transaction: a payment that is pending or paid is returned,
\* otherwise a new pending payment is created for the order
initiatePaymentTx(S, r) ==
  IF S.payment[r.order].status \in {"pending", "settlement", "success"} THEN S
  ELSE [S EXCEPT !.payment[r.order] = [status |-> "pending", paidAmount |-> 0]]

initiatePayment(o, u) ==
  /\ variant = "full"
  /\ u = Buyer
  /\ order[o].status = "waiting_payment"
  /\ ~order[o].isPaid
  /\ LET r == Req("initiatePayment", o, u, "-")
     IN Run(initiatePaymentTx(Store, r)) \/ Suspend(r)

initiatePaymentResume(r) ==
  /\ r \in SuspendedOf("initiatePayment")
  /\ Resume(r, initiatePaymentTx(Store, r))

\* order paid_escrow and isPaid, seller wallet upserted, ESCROW_HOLD of
\* -amount recorded; the wallet balance is not touched
handlePaymentSuccess(S, o, amount) ==
  [S EXCEPT !.order[o].status = "paid_escrow",
            !.order[o].isPaid = TRUE,
            !.wallet[Seller].exists = TRUE,
            !.ledger = AddEntry(@, Entry(Seller, "ESCROW_HOLD", -amount, o, 0))]

\* one $transaction: payment.update, then the action the new status calls for
processPaymentStatus(S, r) ==
  LET o == r.order
      S1 == [S EXCEPT !.payment[o] = [status |-> r.arg, paidAmount |-> r.amount]]
  IN IF r.arg \in {"settlement", "success"} THEN handlePaymentSuccess(S1, o, r.amount)
     ELSE IF r.arg \in {"failed", "expired"}
          THEN [S1 EXCEPT !.order[o].status = "cancelled"]
          ELSE S1

\* signature check, payment lookup and idempotency check, all before the
\* transaction; a notification that fails one of them changes nothing
handleWebhook(o, transactionStatus, fraudStatus, signatureKey) ==
  /\ variant = "full"
  /\ validateSignature(o, signatureKey)
  /\ payment[o].status # "none"
  /\ payment[o].status \notin finalStatuses
  /\ LET r == [Req("handleWebhook", o, "midtrans",
                   mapMidtransStatus(transactionStatus, fraudStatus))
                 EXCEPT !.amount = order[o].price]
     IN Run(processPaymentStatus(Store, r)) \/ Suspend(r)

handleWebhookResume(r) ==
  /\ r \in SuspendedOf("handleWebhook")
  /\ Resume(r, processPaymentStatus(Store, r))

\* the reads of releaseEscrow: order completed and no ESCROW_RELEASE yet
releaseEscrowReads(S, o) ==
  /\ S.order[o].status = "completed"
  /\ OrderEntryCount(S.ledger, o, {"ESCROW_RELEASE"}) = 0

\* one $transaction: seller balance += net, ESCROW_RELEASE and PLATFORM_FEE
\* recorded; a missing seller wallet rolls it back
releaseEscrowTx(S, r) ==
  LET o == r.order
      amount == S.order[o].price
      platformFee == releaseEscrowAmounts(amount).platformFee
      sellerAmount == releaseEscrowAmounts(amount).sellerAmount
  IN IF ~S.wallet[Seller].exists THEN S
     ELSE [S EXCEPT !.wallet[Seller].balance = @ + sellerAmount,
                    !.ledger = AddEntry(AddEntry(@,
                       Entry(Seller, "ESCROW_RELEASE", sellerAmount, o, 0)),
                       Entry(Seller, "PLATFORM_FEE", -platformFee, o, 0))]

\* a call that finds the order not completed, or the release already
\* recorded, returns without writing; otherwise its transaction follows, at
\* once or after a suspension
releaseEscrow(o) ==
  /\ variant = "full"
  /\ LET r == Req("releaseEscrow", o, "system", "-")
     IN \/ IF releaseEscrowReads(Store, o)
           THEN Run(releaseEscrowTx(Store, r)) \/ Suspend(r)
           ELSE UNCHANGED vars
        \/ /\ r \in SuspendedOf("releaseEscrow")
           /\ Resume(r, releaseEscrowTx(Store, r))

\* ------------------------------------------ PaymentsService, event variant
updatedStatus(paymentStatus, transactionStatus) ==
  CASE transactionStatus \in {"settlement", "capture"} -> "settlement"
    [] transactionStatus = "pending" -> "pending"
    [] transactionStatus = "expire" -> "expire"
    [] transactionStatus \in {"cancel", "deny"} -> "cancelled"
    [] OTHER -> paymentStatus

\* OrdersService.handlePaymentSuccess, the 'payment.settled' listener, its
\* $transaction: order paid_escrow and isPaid, payment settlement
handlePaymentSuccessTx(S, r) ==
  [S EXCEPT !.order[r.order].status = "paid_escrow",
            !.order[r.order].isPaid = TRUE,
            !.payment[r.order].status = "settlement"]

\* payment.update; on settlement the event is emitted and the listener reads
\* the order: an order already paid ends it, otherwise its transaction
\* follows, at once or after a suspension.  done is what leaves the
\* suspended handlers when this step ends the request.
handlePaymentWebhookUpdate(r, done) ==
  LET o == r.order
      S1 == [Store EXCEPT !.payment[o].status = r.arg]
      listener == Req("payment.settled", o, "midtrans", "-")
  IN IF r.arg = "settlement" /\ ~S1.order[o].isPaid
     THEN \/ /\ Apply(handlePaymentSuccessTx(S1, listener))
             /\ suspended' = suspended (-) done
             /\ UNCHANGED <<variant, quote, response, notification, payout>>
          \/ /\ BagCardinality(suspended (-) done) < MaxSuspended
             /\ Apply(S1)
             /\ suspended' = (suspended (-) done) (+) SetToBag({listener})
             /\ UNCHANGED <<variant, quote, response, notification, payout>>
     ELSE /\ Apply(S1)
          /\ suspended' = suspended (-) done
          /\ UNCHANGED <<variant, quote, response, notification, payout>>

\* signature check, payment lookup and idempotency check
handlePaymentWebhook(o, transactionStatus, signatureKey) ==
  /\ variant = "event"
  /\ signatureKey = verifySignature(o)
  /\ payment[o].status # "none"
  /\ ~(payment[o].status = "settlement" /\ transactionStatus = "settlement")
  /\ LET r == Req("handlePaymentWebhook", o, "midtrans",
                  updatedStatus(payment[o].status, transactionStatus))
     IN handlePaymentWebhookUpdate(r, EmptyBag) \/ Suspend(r)

handlePaymentWebhookResume(r) ==
  /\ r \in SuspendedOf("handlePaymentWebhook")
  /\ handlePaymentWebhookUpdate(r, SetToBag({r}))

handlePaymentSuccessResume(r) ==
  /\ r \in SuspendedOf("payment.settled")
  /\ Resume(r, handlePaymentSuccessTx(Store, r))

\* ------------------------------------------------------------ WalletService
\* users who ask for withdrawals
WithdrawingUsers == {Seller}

PendingCount(S, u) ==
  Cardinality({w \in DOMAIN S.withdrawal :
                 S.withdrawal[w].userId = u /\ S.withdrawal[w].status = "pending"})

\* ids of the Withdrawal rows not created yet
FreeIds(S) == {w \in DOMAIN S.withdrawal : S.withdrawal[w].status = "none"}

\* a hold of the net amount: the balance gives up the amount less the fee
createWithdrawalTxNet(S, r) ==
  LET w == CHOOSE x \in FreeIds(S) : \A y \in FreeIds(S) : x <= y
      c == calculateNetWithdrawalAmount(r.amount)
  IN [S EXCEPT !.withdrawal[w] = [status |-> "pending", userId |-> r.user,
                                  amount |-> r.amount, fee |-> c.fee,
                                  netAmount |-> c.net],
               !.wallet[r.user].balance = @ - c.net,
               !.ledger = AddEntry(@, Entry(r.user, "WITHDRAWAL", -c.net, NoId, w))]

\* one $transaction: the Withdrawal row is created as pending, the gross
\* amount is taken from the balance, a WITHDRAWAL entry is recorded
createWithdrawalTx(S, r) ==
  LET w == CHOOSE x \in FreeIds(S) : \A y \in FreeIds(S) : x <= y
      c == calculateNetWithdrawalAmount(r.amount)
  IN [S EXCEPT !.withdrawal[w] = [status |-> "pending", userId |-> r.user,
                                  amount |-> r.amount, fee |-> c.fee,
                                  netAmount |-> c.net],
               !.wallet[r.user].balance = @ - r.amount,
               !.ledger = AddEntry(@, Entry(r.user, "WITHDRAWAL", -r.amount, NoId, w))]

\* wallet lookup, balance check and pending count, all before the
\* transaction; a row id is left for every call that is suspended
createWithdrawal(u, amount) ==
  /\ wallet[u].exists
  /\ wallet[u].balance - MIN_BALANCE >= amount
  /\ PendingCount(Store, u) < MAX_PENDING_WITHDRAWALS
  /\ Cardinality(FreeIds(Store)) > CountEntries(suspended, SuspendedOf("createWithdrawal"))
  /\ LET r == WithdrawalReq("createWithdrawal", 0, u, amount)
     IN Run(createWithdrawalTx(Store, r)) \/ Suspend(r)

createWithdrawalResume(r) ==
  /\ r \in SuspendedOf("createWithdrawal")
  /\ Resume(r, createWithdrawalTx(Store, r))

\* processWithdrawal: the row is read once and handed to the action's method;
\* r carries the amount and the owner's wallet of the row that was read
processWithdrawal(w, action, adminId) ==
  WithdrawalReq(action, w, adminId, withdrawal[w].amount)

\* an approval that takes the amount from the balance a second time
approveWithdrawalWriteDebiting(S, r) ==
  [S EXCEPT !.withdrawal[r.wid].status = "processing",
            !.wallet[S.withdrawal[r.wid].userId].balance = @ - r.amount]

approveWithdrawalWrite(S, r) == [S EXCEPT !.withdrawal[r.wid].status = "processing"]

approveWithdrawal(w, adminId) ==
  /\ withdrawal[w].status = "pending"
  /\ LET r == processWithdrawal(w, "approve", adminId)
     IN Run(approveWithdrawalWrite(Store, r)) \/ Suspend(r)

approveWithdrawalResume(r) ==
  /\ r \in SuspendedOf("approve")
  /\ Resume(r, approveWithdrawalWrite(Store, r))

\* a reversal that records the WITHDRAWAL_REVERSAL entry and leaves the
\* balance as it is
ReverseHoldEntryOnly(S, r) ==
  [S EXCEPT !.ledger = AddEntry(@, Entry(S.withdrawal[r.wid].userId,
                                         "WITHDRAWAL_REVERSAL", r.amount, NoId, r.wid))]

\* the reversal of a hold: the amount goes back to the balance and a
\* WITHDRAWAL_REVERSAL entry is recorded
ReverseHold(S, r) ==
  LET owner == S.withdrawal[r.wid].userId
  IN [S EXCEPT !.wallet[owner].balance = @ + r.amount,
               !.ledger = AddEntry(@, Entry(owner, "WITHDRAWAL_REVERSAL",
                                            r.amount, NoId, r.wid))]

\* one $transaction: status cancelled, hold reversed
rejectWithdrawalTx(S, r) ==
  ReverseHold([S EXCEPT !.withdrawal[r.wid].status = "cancelled"], r)

rejectWithdrawal(w, adminId, adminNotes) ==
  /\ withdrawal[w].status = "pending"
  /\ adminNotes
  /\ LET r == processWithdrawal(w, "reject", adminId)
     IN Run(rejectWithdrawalTx(Store, r)) \/ Suspend(r)

rejectWithdrawalResume(r) ==
  /\ r \in SuspendedOf("reject")
  /\ Resume(r, rejectWithdrawalTx(Store, r))

completeWithdrawalWrite(S, r) == [S EXCEPT !.withdrawal[r.wid].status = "completed"]

completeWithdrawal(w, adminId) ==
  /\ withdrawal[w].status = "processing"
  /\ LET r == processWithdrawal(w, "complete", adminId)
     IN Run(completeWithdrawalWrite(Store, r)) \/ Suspend(r)

completeWithdrawalResume(r) ==
  /\ r \in SuspendedOf("complete")
  /\ Resume(r, completeWithdrawalWrite(Store, r))

\* one $transaction: status failed, hold reversed
failWithdrawalTx(S, r) ==
  ReverseHold([S EXCEPT !.withdrawal[r.wid].status = "failed"], r)

failWithdrawal(w, adminId, adminNotes) ==
  /\ withdrawal[w].status = "processing"
  /\ adminNotes
  /\ LET r == processWithdrawal(w, "fail", adminId)
     IN Run(failWithdrawalTx(Store, r)) \/ Suspend(r)

failWithdrawalResume(r) ==
  /\ r \in SuspendedOf("fail")
  /\ Resume(r, failWithdrawalTx(Store, r))

\* one $transaction: status cancelled, hold reversed
cancelWithdrawalTx(S, r) ==
  ReverseHold([S EXCEPT !.withdrawal[r.wid].status = "cancelled"], r)

cancelWithdrawal(u, w) ==
  /\ withdrawal[w].userId = u
  /\ withdrawal[w].status = "pending"
  /\ LET r == WithdrawalReq("cancelWithdrawal", w, u, withdrawal[w].amount)
     IN Run(cancelWithdrawalTx(Store, r)) \/ Suspend(r)

cancelWithdrawalResume(r) ==
  /\ r \in SuspendedOf("cancelWithdrawal")
  /\ Resume(r, cancelWithdrawalTx(Store, r))

\* ------------------------------------------------------------------ Next
Next ==
  \/ \E u \in Users : getOrCreateWallet(u)
  \/ \E o \in Orders, u \in Callers : confirmOrder(o, u)
  \/ \E r \in BagToSet(suspended) : confirmOrderResume(r)
  \/ \E o \in Orders, u \in Callers : startWork(o, u)
  \/ \E r \in BagToSet(suspended) : startWorkResume(r)
  \/ \E o \in Orders, u \in Callers : deliverWork(o, u)
  \/ \E r \in BagToSet(suspended) : deliverWorkResume(r)
  \/ \E o \in Orders, u \in Callers : requestRevision(o, u)
  \/ \E r \in BagToSet(suspended) : requestRevisionResume(r)
  \/ \E o \in Orders, u \in Callers : approveWork(o, u)
  \/ \E r \in BagToSet(suspended) : approveWorkResume(r)
  \/ \E o \in Orders, u \in Callers, role \in {"buyer", "seller"} : cancelOrder(o, u, role)
  \/ \E r \in BagToSet(suspended) : cancelOrderResume(r)
  \/ \E o \in Orders, u \in Callers : openDispute(o, u)
  \/ \E r \in BagToSet(suspended) : openDisputeResume(r)
  \/ \E o \in Orders, res \in {"RELEASE_TO_SELLER", "REFUND_TO_BUYER"} :
       resolveDispute(Admin, o, res)
  \/ \E r \in BagToSet(suspended) : resolveDisputeResume(r)
  \/ \E o \in Orders, u \in Users : initiatePayment(o, u)
  \/ \E r \in BagToSet(suspended) : initiatePaymentResume(r)
  \/ \E o \in Orders : \E t \in RawStatuses, f \in FraudStatuses, k \in SignatureKeys(o) :
       handleWebhook(o, t, f, k)
  \/ \E r \in BagToSet(suspended) : handleWebhookResume(r)
  \/ \E o \in Orders : releaseEscrow(o)
  \/ \E o \in Orders : \E t \in RawStatuses, k \in SignatureKeys(o) :
       handlePaymentWebhook(o, t, k)
  \/ \E r \in BagToSet(suspended) : handlePaymentWebhookResume(r)
  \/ \E r \in BagToSet(suspended) : handlePaymentSuccessResume(r)
  \/ \E u \in WithdrawingUsers, a \in WithdrawalAmounts : createWithdrawal(u, a)
  \/ \E r \in BagToSet(suspended) : createWithdrawalResume(r)
  \/ \E w \in WithdrawalIds : approveWithdrawal(w, Admin)
  \/ \E r \in BagToSet(suspended) : approveWithdrawalResume(r)
  \/ \E w \in WithdrawalIds, notes \in BOOLEAN : rejectWithdrawal(w, Admin, notes)
  \/ \E r \in BagToSet(suspended) : rejectWithdrawalResume(r)
  \/ \E w \in WithdrawalIds : completeWithdrawal(w, Admin)
  \/ \E r \in BagToSet(suspended) : completeWithdrawalResume(r)
  \/ \E w \in WithdrawalIds, notes \in BOOLEAN : failWithdrawal(w, Admin, notes)
  \/ \E r \in BagToSet(suspended) : failWithdrawalResume(r)
  \/ \E u \in Users, w \in WithdrawalIds : cancelWithdrawal(u, w)
  \/ \E r \in BagToSet(suspended) : cancelWithdrawalResume(r)

Spec == Init /\ [][Next]_vars

\* ------------------------------------------- the fee arithmetic on its own
\* the order is created with any price of FeePrices
InitFees ==
  /\ variant \in {"full", "event"}
  /\ order \in [Orders -> [status : {"draft"}, isPaid : {FALSE},
                           revisionCount : {0}, price : FeePrices]]
  /\ payment = [o \in Orders |-> [status |-> "none", paidAmount |-> 0]]
  /\ wallet = [u \in Users |-> [exists |-> FALSE, balance |-> 0]]
  /\ ledger = EmptyBag
  /\ withdrawal = [w \in WithdrawalIds |->
                     [status |-> "none", userId |-> NoId, amount |-> 0,
                      fee |-> 0, netAmount |-> 0]]
  /\ dispute = [o \in Orders |-> [status |-> "none", resolution |-> NoId]]
  /\ statistics = [totalOrders |-> 0, totalOrdersCompleted |-> 0]
  /\ quote = NoQuote
  /\ response = NoResponse
  /\ notification = NoNotification
  /\ payout = NoPayouts
  /\ suspended = EmptyBag

\* PaymentsService.releaseEscrow computes platformFee and sellerAmount from
\* the price of order o, at PLATFORM_FEE_PERCENTAGE
ComputeReleaseEscrow(o) ==
  /\ LET a == releaseEscrowAmounts(order[o].price)
     IN quote' = [path |-> "releaseEscrow", price |-> order[o].price,
                  percentage |-> PLATFORM_FEE_PERCENTAGE,
                  fee |-> Rat(a.platformFee, 1), net |-> Rat(a.sellerAmount, 1)]
  /\ UNCHANGED <<variant, order, payment, wallet, ledger, withdrawal, dispute,
                 statistics, response, notification, payout, suspended>>

\* OrdersService.approveWork computes platformFee and amountToSeller from the
\* price of order o, at the 10% written in its code
ComputeApproveWork(o) ==
  /\ LET a == approveWorkAmounts(order[o].price)
     IN quote' = [path |-> "approveWork", price |-> order[o].price,
                  percentage |-> 10,
                  fee |-> a.platformFee, net |-> a.amountToSeller]
  /\ UNCHANGED <<variant, order, payment, wallet, ledger, withdrawal, dispute,
                 statistics, response, notification, payout, suspended>>

NextFees ==
  \/ \E o \in Orders : ComputeReleaseEscrow(o)
  \/ \E o \in Orders : ComputeApproveWork(o)

SpecFees == InitFees /\ [][NextFees]_vars

\* ------------------------------------- the webhook endpoint and its answer
\* POST /payments/webhook of the full variant, handled to its end: the
\* controller answers 200 whatever handleWebhook returns, with success =
\* isValid; a bad signature and an unknown payment give isValid false, a
\* payment in a final status and a processed notification give isValid true
handleWebhookEndpoint(o, transactionStatus, fraudStatus, signatureKey) ==
  /\ variant = "full"
  /\ LET r == [Req("handleWebhook", o, "midtrans",
                   mapMidtransStatus(transactionStatus, fraudStatus))
                 EXCEPT !.amount = order[o].price]
     IN IF ~validateSignature(o, signatureKey) \/ payment[o].status = "none"
        THEN /\ Apply(Store)
             /\ response' = [statusCode |-> 200, success |-> FALSE]
        ELSE IF payment[o].status \in finalStatuses
             THEN /\ Apply(Store)
                  /\ response' = [statusCode |-> 200, success |-> TRUE]
             ELSE /\ Apply(processPaymentStatus(Store, r))
                  /\ response' = [statusCode |-> 200, success |-> TRUE]
  /\ UNCHANGED <<variant, quote, notification, payout, suspended>>

\* POST /payments/webhook of the event variant, handled to its end:
\* handlePaymentWebhook throws BadRequestException (400) on a bad signature
\* and NotFoundException (404) on an unknown payment, and the controller
\* lets both through; otherwise it answers 200 with success true
paymentWebhook(o, transactionStatus, signatureKey) ==
  /\ variant = "event"
  /\ LET S1 == [Store EXCEPT !.payment[o].status =
                                updatedStatus(payment[o].status, transactionStatus)]
         listener == Req("payment.settled", o, "midtrans", "-")
     IN IF signatureKey # verifySignature(o)
        THEN /\ Apply(Store)
             /\ response' = [statusCode |-> 400, success |-> FALSE]
        ELSE IF payment[o].status = "none"
        THEN /\ Apply(Store)
             /\ response' = [statusCode |-> 404, success |-> FALSE]
        ELSE IF payment[o].status = "settlement" /\ transactionStatus = "settlement"
        THEN /\ Apply(Store)
             /\ response' = [statusCode |-> 200, success |-> TRUE]
        ELSE /\ Apply(IF S1.payment[o].status = "settlement" /\ ~S1.order[o].isPaid
                      THEN handlePaymentSuccessTx(S1, listener)
                      ELSE S1)
             /\ response' = [statusCode |-> 200, success |-> TRUE]
  /\ UNCHANGED <<variant, quote, notification, payout, suspended>>

\* fraud_status values that flag a notification
FraudFlagged == {"deny", "challenge"}

\* the event variant's endpoint given the whole payload: handlePaymentWebhook
\* takes order_id, transaction_status, transaction_id, status_code,
\* gross_amount and signature_key from it and never reads fraud_status
paymentWebhookPayload(o, transactionStatus, fraudStatus, signatureKey) ==
  paymentWebhook(o, transactionStatus, signatureKey)

\* the buyer brings the order to a payment or cancels it; the gateway notifies
NextWebhook ==
  \/ \E o \in Orders, u \in Callers : confirmOrder(o, u)
  \/ \E r \in BagToSet(suspended) : confirmOrderResume(r)
  \/ \E o \in Orders, u \in Users : initiatePayment(o, u)
  \/ \E r \in BagToSet(suspended) : initiatePaymentResume(r)
  \/ \E o \in Orders, u \in Callers, role \in {"buyer", "seller"} : cancelOrder(o, u, role)
  \/ \E r \in BagToSet(suspended) : cancelOrderResume(r)
  \/ \E o \in Orders : \E t \in RawStatuses, f \in FraudStatuses, k \in SignatureKeys(o) :
       handleWebhookEndpoint(o, t, f, k)
  \/ \E o \in Orders : \E t \in RawStatuses, k \in SignatureKeys(o) :
       paymentWebhook(o, t, k)

SpecWebhook == Init /\ [][NextWebhook]_vars

\* ------------------------------------ notifications inside a transaction
\* a createInTx that lets its error out of the transaction callback: the
\* transaction that had brought the store from S to T is rolled back
createInTxThrowing(S, T, failure) == IF failure THEN S ELSE T

\* NotificationsService.createInTx, called in a transaction that has brought
\* the store from S to T: tx.notification.create succeeds or fails; the
\* failure is caught and logged, nothing is thrown, the transaction goes on
createInTx(S, T, failure) == T

\* the transaction from S to T commits what createInTx leaves of it; the
\* Notification row is created unless the call failed
CommitNotified(S, T, failure) ==
  /\ notification.created + notification.failed < MaxNotifications
  /\ Apply(createInTx(S, T, failure))
  /\ notification' = IF failure
                     THEN [notification EXCEPT !.failed = @ + 1]
                     ELSE [notification EXCEPT !.created = @ + 1]
  /\ UNCHANGED <<variant, quote, response, payout, suspended>>

\* the 'payment.settled' listener after a verified settlement notification of
\* the event variant, handled to its end: payment.update, then the listener's
\* $transaction with its createInTx for the seller
paymentSettledNotified(o, failure) ==
  /\ variant = "event"
  /\ payment[o].status \notin {"none", "settlement"}
  /\ ~order[o].isPaid
  /\ LET S1 == [Store EXCEPT !.payment[o].status = "settlement"]
         listener == Req("payment.settled", o, "midtrans", "-")
     IN CommitNotified(S1, handlePaymentSuccessTx(S1, listener), failure)

\* DisputesService.openDispute handled to its end: its $transaction notifies
\* the other party and the admins once the Dispute row is created
openDisputeNotified(o, u, failure) ==
  /\ u \in {Buyer, Seller}
  /\ order[o].status \in {"in_progress", "delivered", "revision"}
  /\ dispute[o].status = "none"
  /\ CommitNotified(Store, openDisputeTx(Store, Req("openDispute", o, u, "-")), failure)

\* AdminService.resolveDispute handled to its end: its $transaction notifies
\* the buyer and the seller once the Dispute row is RESOLVED
resolveDisputeNotified(adminId, o, resolution, failure) ==
  /\ dispute[o].status = "OPEN"
  /\ CommitNotified(Store,
                    resolveDisputeTx(Store, Req("resolveDispute", o, adminId, resolution)),
                    failure)

\* the order is paid and worked on; its transactions notify, and fail to
NextNotified ==
  \/ \E o \in Orders, u \in Callers : confirmOrder(o, u)
  \/ \E r \in BagToSet(suspended) : confirmOrderResume(r)
  \/ \E o \in Orders, u \in Users : initiatePayment(o, u)
  \/ \E r \in BagToSet(suspended) : initiatePaymentResume(r)
  \/ \E o \in Orders : \E t \in RawStatuses, f \in FraudStatuses, k \in SignatureKeys(o) :
       handleWebhook(o, t, f, k)
  \/ \E r \in BagToSet(suspended) : handleWebhookResume(r)
  \/ \E o \in Orders, u \in Callers : startWork(o, u)
  \/ \E r \in BagToSet(suspended) : startWorkResume(r)
  \/ \E o \in Orders, u \in Callers : deliverWork(o, u)
  \/ \E r \in BagToSet(suspended) : deliverWorkResume(r)
  \/ \E o \in Orders, failure \in BOOLEAN : paymentSettledNotified(o, failure)
  \/ \E o \in Orders, u \in Callers, failure \in BOOLEAN : openDisputeNotified(o, u, failure)
  \/ \E o \in Orders, res \in {"RELEASE_TO_SELLER", "REFUND_TO_BUYER"}, failure \in BOOLEAN :
       resolveDisputeNotified(Admin, o, res, failure)

SpecNotified == Init /\ [][NextNotified]_vars

\* ------------------------------ a settlement notification and its redelivery
\* the 'payment.settled' listener with its try/catch: an order already paid
\* ends it; a $transaction that fails is logged and nothing of it is stored
handlePaymentSuccessCaught(S, r, txOk) ==
  IF S.order[r.order].isPaid \/ ~txOk THEN S ELSE handlePaymentSuccessTx(S, r)

\* a correctly signed settlement notification of the event variant, handled
\* to its end: a payment already in settlement answers 'Payment already
\* processed' and nothing else is done; otherwise payment.update commits, the
\* event is emitted and the listener runs, its transaction failing or not
settlementNotification(o, txOk) ==
  /\ variant = "event"
  /\ payment[o].status # "none"
  /\ LET S1 == [Store EXCEPT !.payment[o].status =
                                updatedStatus(payment[o].status, "settlement")]
         listener == Req("payment.settled", o, "midtrans", "-")
     IN IF payment[o].status = "settlement"
        THEN Apply(Store)
        ELSE Apply(handlePaymentSuccessCaught(S1, listener, txOk))
  /\ UNCHANGED <<variant, quote, response, notification, payout, suspended>>

\* the settlement notification of the full variant: payment and order are
\* written in one transaction
settlementNotificationFull(o) ==
  \E k \in SignatureKeys(o) : handleWebhook(o, "settlement", "accept", k)

\* the buyer brings the order to its payment, the gateway delivers the
\* settlement notification and delivers it again, the seller works
NextRedelivery ==
  \/ \E u \in Users : getOrCreateWallet(u)
  \/ \E o \in Orders, u \in Callers : confirmOrder(o, u)
  \/ \E r \in BagToSet(suspended) : confirmOrderResume(r)
  \/ \E o \in Orders, u \in Users : initiatePayment(o, u)
  \/ \E r \in BagToSet(suspended) : initiatePaymentResume(r)
  \/ \E o \in Orders : settlementNotificationFull(o)
  \/ \E r \in BagToSet(suspended) : handleWebhookResume(r)
  \/ \E o \in Orders, txOk \in BOOLEAN : settlementNotification(o, txOk)
  \/ \E o \in Orders, u \in Callers : startWork(o, u)
  \/ \E r \in BagToSet(suspended) : startWorkResume(r)
  \/ \E o \in Orders, u \in Callers : deliverWork(o, u)
  \/ \E r \in BagToSet(suspended) : deliverWorkResume(r)

\* the gateway delivers its notification until it is taken, and a delivery
\* whose transaction succeeds is not postponed for ever; a suspended handler
\* goes on
SpecRedelivery ==
  /\ Init
  /\ [][NextRedelivery]_vars
  /\ \A o \in Orders : SF_vars(settlementNotification(o, TRUE))
  /\ \A o \in Orders : SF_vars(settlementNotificationFull(o))
  /\ WF_vars(\E r \in BagToSet(suspended) : handleWebhookResume(r))

\* ------------------------------------------- AdminService, payout requests
\* the payout requests were made (by a service that is not among the
\* sources): each is pending, its amount already taken from the seller wallet
InitPayout ==
  /\ variant \in {"full", "event"}
  /\ order \in [Orders -> [status : {"draft"}, isPaid : {FALSE},
                           revisionCount : {0}, price : Prices]]
  /\ payment = [o \in Orders |-> [status |-> "none", paidAmount |-> 0]]
  /\ wallet = [u \in Users |-> [exists |-> u = Seller, balance |-> 0]]
  /\ ledger = EmptyBag
  /\ withdrawal = [w \in WithdrawalIds |->
                     [status |-> "none", userId |-> NoId, amount |-> 0,
                      fee |-> 0, netAmount |-> 0]]
  /\ dispute = [o \in Orders |-> [status |-> "none", resolution |-> NoId]]
  /\ statistics = [totalOrders |-> 0, totalOrdersCompleted |-> 0]
  /\ quote = NoQuote
  /\ response = NoResponse
  /\ notification = NoNotification
  /\ payout \in [PayoutIds -> [status : {"pending"}, amount : PayoutAmounts]]
  /\ suspended = EmptyBag

\* payoutRequest.update to completed, by id alone; then a notification
approvePayout(payoutId) ==
  /\ payout[payoutId].status # "none"
  /\ payout' = [payout EXCEPT ![payoutId].status = "completed"]
  /\ UNCHANGED <<variant, order, payment, wallet, ledger, withdrawal, dispute,
                 statistics, quote, response, notification, suspended>>

\* one $transaction: the request rejected, PAYOUT_REJECTED credits the amount
\* back to the wallet of the request, a notification
rejectPayoutTx(S, r) == createTransaction(S, r.user, "PAYOUT_REJECTED", r.amount, NoId)

\* the request is read and must be pending; its transaction follows, at once
\* or after a suspension
rejectPayout(payoutId) ==
  /\ payout[payoutId].status = "pending"
  /\ LET r == WithdrawalReq("rejectPayout", payoutId, Seller, payout[payoutId].amount)
     IN \/ /\ Apply(rejectPayoutTx(Store, r))
           /\ payout' = [payout EXCEPT ![payoutId].status = "rejected"]
           /\ UNCHANGED <<variant, quote, response, notification, suspended>>
        \/ Suspend(r)

rejectPayoutResume(r) ==
  /\ r \in SuspendedOf("rejectPayout")
  /\ Apply(rejectPayoutTx(Store, r))
  /\ payout' = [payout EXCEPT ![r.wid].status = "rejected"]
  /\ suspended' = suspended (-) SetToBag({r})
  /\ UNCHANGED <<variant, quote, response, notification>>

NextPayout ==
  \/ \E p \in PayoutIds : approvePayout(p)
  \/ \E p \in PayoutIds : rejectPayout(p)
  \/ \E r \in BagToSet(suspended) : rejectPayoutResume(r)

SpecPayout == InitPayout /\ [][NextPayout]_vars

\* ----------------------------------- the limit of pending withdrawals
\* the seller has earned a balance that pays for several withdrawals; no
\* Withdrawal row exists yet
InitPending ==
  /\ variant \in {"full", "event"}
  /\ order \in [Orders -> [status : {"draft"}, isPaid : {FALSE},
                           revisionCount : {0}, price : Prices]]
  /\ payment = [o \in Orders |-> [status |-> "none", paidAmount |-> 0]]
  /\ wallet \in {[u \in Users |-> [exists |-> u = Seller,
                                   balance |-> IF u = Seller THEN b ELSE 0]] :
                   b \in PendingBalances}
  /\ ledger = EmptyBag
  /\ withdrawal = [w \in PendingIds |->
                     [status |-> "none", userId |-> NoId, amount |-> 0,
                      fee |-> 0, netAmount |-> 0]]
  /\ dispute = [o \in Orders |-> [status |-> "none", resolution |-> NoId]]
  /\ statistics = [totalOrders |-> 0, totalOrdersCompleted |-> 0]
  /\ quote = NoQuote
  /\ response = NoResponse
  /\ notification = NoNotification
  /\ payout = NoPayouts
  /\ suspended = EmptyBag

\* the seller asks for withdrawals, the admin approves and completes them
NextPending ==
  \/ \E u \in WithdrawingUsers, a \in PendingAmounts : createWithdrawal(u, a)
  \/ \E r \in BagToSet(suspended) : createWithdrawalResume(r)
  \/ \E w \in PendingIds : approveWithdrawal(w, Admin)
  \/ \E r \in BagToSet(suspended) : approveWithdrawalResume(r)
  \/ \E w \in PendingIds : completeWithdrawal(w, Admin)
  \/ \E r \in BagToSet(suspended) : completeWithdrawalResume(r)

SpecPending == InitPending /\ [][NextPending]_vars

\* ===================================================== properties checked
HoldCount(o) == OrderEntryCount(ledger, o, {"ESCROW_HOLD"})

\* a step in which a signature-valid settlement notification for o is
\* handled from arrival to the end with no other handler suspended, on an
\* order that is not paid yet
SettlementDelivered(o) ==
  /\ suspended = EmptyBag
  /\ suspended' = EmptyBag
  /\ ~order[o].isPaid
  /\ HoldCount(o) = 0
  /\ \/ \E k \in SignatureKeys(o) : handleWebhook(o, "settlement", "accept", k)
     \/ \E k \in SignatureKeys(o) : handlePaymentWebhook(o, "settlement", k)

\* C1: a settlement notification delivered on its own leaves the order
\* paid_escrow with isPaid true and exactly one ESCROW_HOLD entry, and leaves
\* the payment in a state in which the same notification delivered again is
\* skipped (so the second delivery adds no entry and changes no balance).
C1_SettlementTwiceSameAsOnce ==
  [][\A o \in Orders :
       SettlementDelivered(o) =>
         /\ order'[o].status = "paid_escrow"
         /\ order'[o].isPaid
         /\ OrderEntryCount(ledger', o, {"ESCROW_HOLD"}) = 1
         /\ payment'[o].status = "settlement"]_vars

\* C2: when no delivery is under way any more, an order whose payment was
\* settled by the full webhook handler has exactly one ESCROW_HOLD entry,
\* whatever the interleaving of the deliveries was.
C2_ConcurrentDeliveriesHoldOnce ==
  \A o \in Orders :
    (variant = "full" /\ suspended = EmptyBag /\ payment[o].status = "settlement")
      => HoldCount(o) = 1

\* every entry type the handlers write
EntryTypes ==
  {"ESCROW_HOLD", "ESCROW_RELEASE", "PLATFORM_FEE", "ESCROW_REFUND", "REFUND",
   "WITHDRAWAL", "WITHDRAWAL_REVERSAL"}

\* the entry types written without a balance change
MemoTypes == {"ESCROW_HOLD", "PLATFORM_FEE"}

\* C3 as stated: each wallet's balance is the sum of all its ledger entries.
C3_BalanceIsSumOfAllEntries ==
  \A u \in Users : wallet[u].balance = LedgerSum(ledger, u, EntryTypes)

\* C3 amended: each wallet's balance is the sum of its ledger entries other
\* than ESCROW_HOLD and PLATFORM_FEE, and the releaseEscrow transaction run on
\* the current store moves the balance by exactly the ESCROW_RELEASE amount.
C3_BalanceIsSumOfBalanceEntries ==
  /\ \A u \in Users :
       wallet[u].balance = LedgerSum(ledger, u, EntryTypes \ MemoTypes)
  /\ \A o \in Orders :
       LET T == releaseEscrowTx(Store, Req("releaseEscrow", o, "system", "-"))
       IN \A u \in Users :
            T.wallet[u].balance = LedgerSum(T.ledger, u, EntryTypes \ MemoTypes)

\* C3 witness: the seller wallet carries a hold, a release, a withdrawal and
\* its reversal, and a positive balance
C3_Witness ==
  /\ wallet[Seller].balance > 0
  /\ \A t \in {"ESCROW_HOLD", "ESCROW_RELEASE", "WITHDRAWAL", "WITHDRAWAL_REVERSAL"} :
       \E e \in BagToSet(ledger) : e.wallet = Seller /\ e.type = t

\* C4: no wallet balance is ever below MIN_BALANCE.
C4_BalanceNeverBelowMinimum ==
  \A u \in Users : wallet[u].balance >= MIN_BALANCE

\* C5: no withdrawal ever has more than one WITHDRAWAL_REVERSAL entry.
C5_AtMostOneReversal ==
  \A w \in WithdrawalIds :
    WithdrawalEntryCount(ledger, w, {"WITHDRAWAL_REVERSAL"}) <= 1

\* C6: no order ever has more than one entry that releases or refunds its
\* escrow (ESCROW_RELEASE, REFUND or ESCROW_REFUND).
C6_AtMostOneReleaseOrRefund ==
  \A o \in Orders :
    OrderEntryCount(ledger, o, {"ESCROW_RELEASE", "REFUND", "ESCROW_REFUND"}) <= 1

\* C7: every order with isPaid true has exactly one ESCROW_HOLD entry, of
\* minus the paid amount.
C7_PaidOrderHasOneHold ==
  \A o \in Orders :
    order[o].isPaid =>
      /\ HoldCount(o) = 1
      /\ \A e \in BagToSet(ledger) :
           (e.refOrderId = o /\ e.type = "ESCROW_HOLD")
             => e.amount = -payment[o].paidAmount

PaidStatuses ==
  {"paid_escrow", "in_progress", "delivered", "revision", "completed",
   "disputed", "resolved"}

\* C8: isPaid is true exactly when the status is one of paid_escrow,
\* in_progress, delivered, revision, completed, disputed, resolved.
C8_IsPaidIffPaidStatus ==
  \A o \in Orders : order[o].isPaid <=> order[o].status \in PaidStatuses

OrderEdges ==
  {<<"draft", "waiting_payment">>, <<"waiting_payment", "paid_escrow">>,
   <<"paid_escrow", "in_progress">>, <<"in_progress", "delivered">>,
   <<"delivered", "revision">>, <<"revision", "delivered">>,
   <<"delivered", "completed">>,
   <<"draft", "cancelled">>, <<"waiting_payment", "cancelled">>,
   <<"paid_escrow", "cancelled">>,
   <<"in_progress", "disputed">>, <<"delivered", "disputed">>,
   <<"revision", "disputed">>, <<"disputed", "resolved">>}

\* C9: every change of an order's status follows an edge of the order state
\* graph; cancelled, completed and resolved have no outgoing edge.
C9_OrderStatusFollowsGraph ==
  [][\A o \in Orders :
       order'[o].status # order[o].status
         => <<order[o].status, order'[o].status>> \in OrderEdges]_vars

WithdrawalEdges ==
  {<<"none", "pending">>, <<"pending", "processing">>,
   <<"processing", "completed">>, <<"pending", "cancelled">>,
   <<"processing", "failed">>}

\* C10: every change of a withdrawal's status is its creation as pending or
\* one of pending->processing, processing->completed, pending->cancelled,
\* processing->failed; completed, cancelled and failed are never left.
C10_WithdrawalStatusFollowsGraph ==
  [][\A w \in WithdrawalIds :
       withdrawal'[w].status # withdrawal[w].status
         => <<withdrawal[w].status, withdrawal'[w].status>> \in WithdrawalEdges]_vars

ReversalCount(ldg, w) == WithdrawalEntryCount(ldg, w, {"WITHDRAWAL_REVERSAL"})

\* C11: the step that creates a withdrawal lowers its owner's balance by
\* exactly the gross amount of the withdrawal (not by its net amount), and
\* every step that records a reversal of a withdrawal (reject, fail or
\* cancel) raises the owner's balance by exactly that same amount; a create
\* followed by one reversal therefore gives back the balance before the create.
C11_HoldAndReversalAreExact ==
  [][\A w \in WithdrawalIds :
       LET owner == withdrawal'[w].userId
       IN /\ (withdrawal[w].status = "none" /\ withdrawal'[w].status = "pending")
               => /\ wallet'[owner].balance =
                       wallet[owner].balance - withdrawal'[w].amount
                  /\ withdrawal'[w].amount =
                       withdrawal'[w].netAmount + withdrawal'[w].fee
                  /\ WithdrawalEntryCount(ledger', w, {"WITHDRAWAL"}) = 1
                  /\ \A e \in BagToSet(ledger') :
                       (e.refWithdrawalId = w /\ e.type = "WITHDRAWAL")
                         => e.amount = -withdrawal'[w].amount
          /\ ReversalCount(ledger', w) > ReversalCount(ledger, w)
               => /\ withdrawal'[w].status \in {"cancelled", "failed"}
                  /\ wallet'[owner].balance =
                       wallet[owner].balance + withdrawal[w].amount
                  /\ \A e \in BagToSet(ledger') :
                       (e.refWithdrawalId = w /\ e.type = "WITHDRAWAL_REVERSAL")
                         => e.amount = withdrawal[w].amount]_vars

\* C11 witness: a withdrawal was created and reversed once, and the owner's
\* balance is again what it was before the create (the escrow released to it)
C11_Witness ==
  \E w \in WithdrawalIds :
    /\ withdrawal[w].status \in {"cancelled", "failed"}
    /\ withdrawal[w].amount > withdrawal[w].netAmount
    /\ BagCardinality(ledger) = 3
    /\ WithdrawalEntryCount(ledger, w, {"WITHDRAWAL"}) = 1
    /\ ReversalCount(ledger, w) = 1
    /\ wallet[withdrawal[w].userId].balance =
         LedgerSum(ledger, withdrawal[w].userId, {"ESCROW_RELEASE"})
    /\ wallet[withdrawal[w].userId].balance > 0

ReleaseCount(ldg, o) == OrderEntryCount(ldg, o, {"ESCROW_RELEASE"})

\* C12: approveWork is applied at most once per order, whatever the
\* interleaving of concurrent approveWork calls: in every step the order
\* becomes completed exactly when its ESCROW_RELEASE entry is recorded, in
\* that same step service.totalOrders and the seller's totalOrdersCompleted
\* each rise by exactly 1 (and in no other step do they change), and over the
\* whole behaviour each of them rises by at most 1 for the order.
C12_ApproveWorkAppliedOnce ==
  [][\A o \in Orders :
       LET released == ReleaseCount(ledger', o) - ReleaseCount(ledger, o)
           completes == order[o].status # "completed" /\ order'[o].status = "completed"
       IN /\ released \in {0, 1}
          /\ completes <=> released = 1
          /\ statistics'.totalOrders = statistics.totalOrders + released
          /\ statistics'.totalOrdersCompleted =
               statistics.totalOrdersCompleted + released
          /\ statistics'.totalOrders <= Cardinality(Orders)
          /\ statistics'.totalOrdersCompleted <= Cardinality(Orders)
          /\ ReleaseCount(ledger', o) <= 1]_vars

\* C12 witness: the order was completed by one approveWork call (statistics
\* at 1, one ESCROW_RELEASE) while a second approveWork call that read the
\* order as delivered is still suspended before its transaction
C12_Witness ==
  \E o \in Orders :
    /\ order[o].status = "completed"
    /\ statistics.totalOrders = 1
    /\ statistics.totalOrdersCompleted = 1
    /\ ReleaseCount(ledger, o) = 1
    /\ \E r \in BagToSet(suspended) : r.op = "approveWork" /\ r.order = o

\* C13: the step in which approveWork completes an order leaves in the
\* ledger an ESCROW_RELEASE entry of +net and a PLATFORM_FEE entry of -fee,
\* both referencing the order, and raises the seller's balance by exactly net.
C13_ApproveWorkRecordsReleaseAndFee ==
  [][\A o \in Orders :
       (order[o].status # "completed" /\ order'[o].status = "completed")
         => LET a == approveWorkAmounts(order[o].price)
                fee == Whole(a.platformFee)
                net == Whole(a.amountToSeller)
            IN /\ \E e \in BagToSet(ledger') :
                    /\ e.refOrderId = o /\ e.wallet = Seller
                    /\ e.type = "ESCROW_RELEASE" /\ e.amount = net
               /\ \E e \in BagToSet(ledger') :
                    /\ e.refOrderId = o
                    /\ e.type = "PLATFORM_FEE" /\ e.amount = -fee
               /\ wallet'[Seller].balance = wallet[Seller].balance + net]_vars

\* C14: whenever a release is computed for an order of price P at fee
\* percentage F, the platform fee is floor(P * F / 100) and the seller's
\* amount is P - floor(P * F / 100).
C14_FeeIsFloorOfPercentage ==
  quote.path # "none" =>
    LET floorFee == (quote.price * quote.percentage) \div 100
    IN /\ RatEquals(quote.fee, Rat(floorFee, 1))
       /\ RatEquals(quote.net, Rat(quote.price - floorFee, 1))

\* C15: on every release path the platform fee and the seller's amount are
\* whole numbers and their sum is the order price exactly.
C15_FeeAndNetAreWholeAndSumToPrice ==
  quote.path # "none" =>
    /\ IsWhole(quote.fee)
    /\ IsWhole(quote.net)
    /\ RatEquals(RatPlus(quote.fee, quote.net), Rat(quote.price, 1))

RefundTypes == {"REFUND", "ESCROW_REFUND"}

TerminalPaymentStatuses ==
  {"settlement", "success", "failed", "expired", "expire", "cancelled", "refund"}

\* a step in which a signature-valid notification for o arrives and is
\* handled to its end at once
WebhookDelivered(o) ==
  /\ suspended' = suspended
  /\ \/ \E t \in RawStatuses, f \in FraudStatuses, k \in SignatureKeys(o) :
          handleWebhook(o, t, f, k)
     \/ \E t \in RawStatuses, k \in SignatureKeys(o) :
          handlePaymentWebhook(o, t, k)

\* C17: once a payment is in a terminal status (settlement, success, failed,
\* expired, cancelled or refund), a webhook delivery for it changes neither
\* the payment, nor the order, nor the ledger.
C17_TerminalPaymentIgnoresWebhooks ==
  [][\A o \in Orders :
       (payment[o].status \in TerminalPaymentStatuses /\ WebhookDelivered(o))
         => /\ payment'[o] = payment[o]
            /\ order'[o] = order[o]
            /\ ledger' = ledger]_vars

\* C18: in every reachable state revisionCount <= maxRevisions for every
\* order, concurrent requestRevision calls included.
C18_RevisionCountWithinQuota ==
  \A o \in Orders : order[o].revisionCount <= MaxRevisions

\* C19: requestRevision handled at once on a delivered order is refused at
\* revisionCount = maxRevisions (no such call goes through, so status and
\* revisionCount stay as they are), and at revisionCount = maxRevisions - 1
\* it sets the status to revision and revisionCount to maxRevisions; in
\* general it goes through only below the quota and adds exactly 1.
C19_RevisionQuotaBoundary ==
  [][\A o \in Orders :
       ((\E u \in Users : requestRevision(o, u)) /\ suspended' = suspended)
         => /\ order[o].revisionCount < MaxRevisions
            /\ order'[o].status = "revision"
            /\ order'[o].revisionCount = order[o].revisionCount + 1
            /\ order[o].revisionCount = MaxRevisions - 1
                 => order'[o].revisionCount = MaxRevisions]_vars

\* C19 witness: a revision was requested at revisionCount = maxRevisions - 1
\* and the order came back delivered at the quota, where requestRevision is
\* refused
C19_Witness ==
  \E o \in Orders :
    /\ order[o].status = "delivered"
    /\ order[o].revisionCount = MaxRevisions
    /\ suspended = EmptyBag
    /\ ~ENABLED (\E u \in Users : requestRevision(o, u))

\* C20: no reachable state has a RESOLVED dispute whose order is still
\* disputed.
C20_ResolvedDisputeLeavesDisputed ==
  \A o \in Orders :
    dispute[o].status = "RESOLVED" => order[o].status # "disputed"

\* C21: the step that marks a dispute RESOLVED also records, for
\* RELEASE_TO_SELLER, an ESCROW_RELEASE entry to the seller of the price net
\* of the fee and, for REFUND_TO_BUYER, a refund entry to the buyer of the
\* full price, both referencing the order.
C21_ResolutionMovesTheEscrow ==
  [][\A o \in Orders :
       (dispute[o].status = "OPEN" /\ dispute'[o].status = "RESOLVED")
         => /\ dispute'[o].resolution = "RELEASE_TO_SELLER"
                 => \E e \in BagToSet(ledger') :
                      /\ e.refOrderId = o /\ e.wallet = Seller
                      /\ e.type = "ESCROW_RELEASE"
                      /\ e.amount = Whole(approveWorkAmounts(order[o].price).amountToSeller)
            /\ dispute'[o].resolution = "REFUND_TO_BUYER"
                 => \E e \in BagToSet(ledger') :
                      /\ e.refOrderId = o /\ e.wallet = Buyer
                      /\ e.type \in RefundTypes
                      /\ e.amount = order[o].price]_vars

\* C22: while an order is disputed and its dispute is OPEN, a step either
\* resolves the dispute or leaves the order disputed with no release and no
\* refund of its escrow recorded, whatever handlers were under way when the
\* dispute was opened.
C22_OnlyResolutionLeavesDisputed ==
  [][\A o \in Orders :
       (order[o].status = "disputed" /\ dispute[o].status = "OPEN")
         => \/ dispute'[o].status = "RESOLVED"
            \/ /\ order'[o].status = "disputed"
               /\ OrderEntryCount(ledger', o, {"ESCROW_RELEASE"} \cup RefundTypes) =
                    OrderEntryCount(ledger, o, {"ESCROW_RELEASE"} \cup RefundTypes)]_vars

disputableStatuses == {"in_progress", "delivered", "revision"}

\* C23: an openDispute call handled at once writes something only for an
\* order read in in_progress, delivered or revision and only for its buyer or
\* seller, and then the order is disputed and its Dispute is OPEN; and in
\* every step the order becomes disputed exactly when its Dispute row is
\* created as OPEN (both in one transaction, or neither).
C23_OpenDisputeIsGuardedAndAtomic ==
  [][\A o \in Orders :
       /\ \A u \in Callers :
            (/\ openDispute(o, u)
             /\ suspended' = suspended
             /\ (order'[o] # order[o] \/ dispute'[o] # dispute[o]))
              => /\ order[o].status \in disputableStatuses
                 /\ u \in {Buyer, Seller}
                 /\ order'[o].status = "disputed"
                 /\ dispute'[o].status = "OPEN"
       /\ (dispute[o].status = "none" /\ dispute'[o].status = "OPEN")
            <=> (order[o].status # "disputed" /\ order'[o].status = "disputed")]_vars

\* C23 witness: a dispute was opened: the order is disputed and its Dispute
\* is OPEN
C23_Witness ==
  \E o \in Orders :
    /\ order[o].status = "disputed"
    /\ dispute[o].status = "OPEN"
    /\ suspended = EmptyBag

\* C24: in every reachable state a notification whose signature_key is not
\* the one the handler computes is rejected by both webhook handlers: no
\* step of handleWebhook or handlePaymentWebhook is possible for it, so it
\* changes no payment, order, wallet or ledger state and suspends nothing.
C24_BadSignatureChangesNothing ==
  \A o \in Orders : \A k \in SignatureKeys(o) :
    /\ k # Sha512(SignedFields(o))
         => ~ENABLED (\E t \in RawStatuses, f \in FraudStatuses :
                        handleWebhook(o, t, f, k) /\ vars' # vars)
    /\ k # HmacSha512(ServerKey, SignedFields(o))
         => ~ENABLED (\E t \in RawStatuses :
                        handlePaymentWebhook(o, t, k) /\ vars' # vars)

\* C24 witness: a payment is pending, a settlement with the matching
\* signature would be handled, and the same settlement with a forged
\* signature is not
C24_Witness ==
  \E o \in Orders :
    /\ payment[o].status = "pending"
    /\ suspended = EmptyBag
    /\ \/ /\ ENABLED handleWebhook(o, "settlement", "accept", Sha512(SignedFields(o)))
          /\ ~ENABLED handleWebhook(o, "settlement", "accept", <<"forged">>)
       \/ /\ ENABLED handlePaymentWebhook(o, "settlement",
                                           HmacSha512(ServerKey, SignedFields(o)))
          /\ ~ENABLED handlePaymentWebhook(o, "settlement", <<"forged">>)

\* C25: every answer of the webhook endpoint is a success response (HTTP
\* 200), also for a notification with a bad signature or for an unknown
\* payment.
C25_WebhookAlwaysAnswersSuccess ==
  response # NoResponse => response.statusCode = 200

\* C26: where confirmOrder creates the payment session (event variant), an
\* order that no confirmOrder call is still working on is never left in
\* waiting_payment without a payment session: after a failed session
\* creation it is still draft, so that confirmOrder can be called again.
C26_NoUnpaidOrderWithoutSession ==
  \A o \in Orders :
    (/\ variant = "event"
     /\ SuspendedOf("confirmOrder") = {}
     /\ order[o].status = "waiting_payment")
      => payment[o].status # "none"

cancellableStatuses == {"draft", "waiting_payment", "paid_escrow"}

\* C27: in every reachable state in which an order is in_progress,
\* delivered, revision, completed, disputed, resolved or cancelled, a
\* cancelOrder call for it by anyone is refused: no cancelOrder step that
\* changes the order, a wallet, the ledger or anything else is possible.
C27_CancelRefusedAfterWorkStarted ==
  \A o \in Orders :
    order[o].status \notin cancellableStatuses
      => ~ENABLED (\E u \in Callers, role \in {"buyer", "seller"} :
                     cancelOrder(o, u, role) /\ vars' # vars)

\* C27 witness: a paid order in progress whose buyer has a wallet, so that a
\* cancellation let through would set it cancelled and record a refund
C27_Witness ==
  \E o \in Orders :
    /\ order[o].status = "in_progress"
    /\ order[o].isPaid
    /\ wallet[Buyer].exists
    /\ suspended = EmptyBag
    /\ cancelOrderWrite(Store, Req("cancelOrder", o, Buyer, "needsRefund")) # Store

C29_OnlyThePartyActs ==
  \A o \in Orders, u \in Callers :
    /\ u # Buyer =>
         /\ ~ENABLED confirmOrder(o, u)
         /\ ~ENABLED requestRevision(o, u)
         /\ ~ENABLED approveWork(o, u)
    /\ u # Seller =>
         /\ ~ENABLED startWork(o, u)
         /\ ~ENABLED deliverWork(o, u)

\* a paid order that its seller can start and nobody else, and which the
\* seller's call brings to in_progress
C29_Witness ==
  \E o \in Orders :
    /\ order[o].status = "paid_escrow"
    /\ ENABLED (startWork(o, Seller) /\ order'[o].status = "in_progress")
    /\ ~ENABLED startWork(o, Buyer)
    /\ ~ENABLED startWork(o, Stranger)

\* C30: a settlement is applied to an order only when the order is in
\* waiting_payment: every step that sets an order to paid_escrow, or records
\* an ESCROW_HOLD for it, starts from a state in which the order is in
\* waiting_payment
C30_SettlementOnlyOnWaitingPayment ==
  [][\A o \in Orders :
       \/ order'[o].status = "paid_escrow" /\ order[o].status # "paid_escrow"
       \/ OrderEntryCount(ledger', o, {"ESCROW_HOLD"}) > HoldCount(o)
       => order[o].status = "waiting_payment"]_vars

\* C31: whenever a payment is in settlement, its order is paid or becomes
\* paid: a settlement whose order update failed is completed by the
\* redelivery of the notification
C31_SettledPaymentLeadsToPaidOrder ==
  \A o \in Orders : (payment[o].status = "settlement") ~> order[o].isPaid

\* C32: in every reachable state, an order that is cancelled and paid has a
\* refund entry of its full price in the ledger, whatever the interleaving of
\* the settlement notification with a failed or expired notification or with
\* cancelOrder
C32_CancelledPaidOrderHasRefund ==
  \A o \in Orders :
    (order[o].status = "cancelled" /\ order[o].isPaid)
      => \E e \in BagToSet(ledger) :
           /\ e.refOrderId = o
           /\ e.type \in RefundTypes
           /\ e.amount = order[o].price

\* C33: a dispute is resolved at most once: no step writes a Dispute row that
\* is already RESOLVED, so of two resolveDispute calls on the same OPEN
\* dispute only one applies its resolution
C33_DisputeResolvedOnce ==
  [][\A o \in Orders :
       dispute[o].status = "RESOLVED" =>
         /\ dispute'[o] = dispute[o]
         /\ ~\E r \in BagToSet(suspended) :
               /\ r.op = "resolveDispute" /\ r.order = o
               /\ suspended' = suspended (-) SetToBag({r})]_vars

\* C34: approvePayout completes only a pending payout request: every step
\* that sets a request to completed starts from a state in which the request
\* is pending, so a rejected request, its amount credited back, is never
\* completed
C34_OnlyPendingPayoutCompleted ==
  [][\A p \in PayoutIds :
       (payout'[p].status = "completed" /\ payout[p].status # "completed")
         => payout[p].status = "pending"]_vars

\* C35: cancelOrder lets the buyer cancel only a draft or waiting_payment
\* order and the seller only a paid_escrow order: in every reachable state a
\* cancel by the other role is refused, it writes nothing and leaves no
\* handler running
C35_CancelByTheRoleOfTheStatus ==
  \A o \in Orders :
    /\ order[o].status = "paid_escrow"
         => ~ENABLED (cancelOrder(o, Buyer, "buyer") /\ vars' # vars)
    /\ order[o].status \in {"draft", "waiting_payment"}
         => ~ENABLED (cancelOrder(o, Seller, "seller") /\ vars' # vars)

\* C36: both release paths apply the same fee: whenever a release has been
\* computed for an order, the amount approveWork credits to the seller for
\* its price equals the amount releaseEscrow credits for it
C36_ReleasePathsCreditTheSame ==
  quote.path # "none" =>
    RatEquals(approveWorkAmounts(quote.price).amountToSeller,
              Rat(releaseEscrowAmounts(quote.price).sellerAmount, 1))

\* C37: a notification carrying a fraud flag never marks an order paid, on
\* either webhook endpoint: a step that handles a notification with
\* fraud_status deny or challenge, whatever its transaction_status, leaves an
\* unpaid order unpaid and does not set it to paid_escrow
C37_FraudFlagNeverPays ==
  [][\A o \in Orders :
       (\E t \in RawStatuses, f \in FraudFlagged, k \in SignatureKeys(o) :
          \/ handleWebhookEndpoint(o, t, f, k)
          \/ paymentWebhookPayload(o, t, f, k))
       => (~order[o].isPaid => /\ ~order'[o].isPaid
                               /\ order'[o].status # "paid_escrow")]_vars

\* C38: in every reachable state a user has at most MAX_PENDING_WITHDRAWALS
\* withdrawals in status pending, also when createWithdrawal calls of the
\* user run concurrently
C38_PendingWithdrawalsWithinLimit ==
  \A u \in Users : PendingCount(Store, u) <= MAX_PENDING_WITHDRAWALS

\* C39: the admin's approve (pending to processing) and complete (processing
\* to completed) of a withdrawal change no wallet and no ledger entry: every
\* step that takes a withdrawal from pending to processing or from processing
\* to completed leaves wallet and ledger as they were
C39_ApproveAndCompleteMoveNoMoney ==
  [][\A w \in WithdrawalIds :
       \/ withdrawal[w].status = "pending" /\ withdrawal'[w].status = "processing"
       \/ withdrawal[w].status = "processing" /\ withdrawal'[w].status = "completed"
       => wallet' = wallet /\ ledger' = ledger]_vars

\* a withdrawal approved and completed: its hold is the only entry of it and
\* the owner's balance is the escrow released less the amount held
C39_Witness ==
  \E w \in WithdrawalIds :
    /\ withdrawal[w].status = "completed"
    /\ WithdrawalEntryCount(ledger, w, {"WITHDRAWAL"}) = 1
    /\ ReversalCount(ledger, w) = 0
    /\ wallet[withdrawal[w].userId].balance =
         LedgerSum(ledger, withdrawal[w].userId, {"ESCROW_RELEASE"}) - withdrawal[w].amount

\* C40: for every withdrawal created, fee is the fixed fee plus the
\* percentage of the amount, netAmount is the amount less the fee, and fee
\* plus netAmount is the amount exactly; a withdrawal of 50,000 has a
\* netAmount of 45,000
C40_WithdrawalFeeAndNetAreExact ==
  \A w \in DOMAIN withdrawal :
    withdrawal[w].status # "none" =>
      /\ RatEquals(Rat(withdrawal[w].fee, 1),
                   Rat(100 * WITHDRAWAL_FEE_FIXED
                         + WITHDRAWAL_FEE_PERCENTAGE * withdrawal[w].amount, 100))
      /\ withdrawal[w].netAmount = withdrawal[w].amount - withdrawal[w].fee
      /\ withdrawal[w].fee + withdrawal[w].netAmount = withdrawal[w].amount
      /\ withdrawal[w].amount = 50000 => withdrawal[w].netAmount = 45000

\* withdrawals of 50,000 and of 50,001 were created, with net amounts of
\* 45,000 and 45,001
C40_Witness ==
  \E w, v \in DOMAIN withdrawal :
    /\ withdrawal[w].status # "none" /\ withdrawal[w].amount = 50000
    /\ withdrawal[w].netAmount = 45000
    /\ withdrawal[v].status # "none" /\ withdrawal[v].amount = 50001
    /\ withdrawal[v].netAmount = 45001

====
